---- MODULE Spec2Model ----
(***************************************************************************)
(* Model of backend/main.py: the FastAPI property recommendation service.  *)
(* State: the two process globals (property_data, model_bundle), the       *)
(* position of the lifespan startup, and for every request being served    *)
(* its position in recommend_properties together with its local frame df.  *)
(*                                                                         *)
(* Units: prices, bedrooms, minutes, ratings and garage spaces are small   *)
(* integers.  A model score is an integer count of 1/100000 (0.33333 is    *)
(* 33333); a response score is an integer count of 1/100 (33.33 is 3333).  *)
(***************************************************************************)
EXTENDS Integers, Sequences, FiniteSets, TLC

VARIABLES phase, property_data, model_bundle, log,
          pc, req, df, resp, ran

vars == <<phase, property_data, model_bundle, log,
          pc, req, df, resp, ran>>

(* ------------------------------ bounds --------------------------------- *)
MaxRows == 2
MaxResults == 1
NumClients == 2

Clients == 1..NumClients

(* --------------------------- frames and rows --------------------------- *)
\* property_data: pd.DataFrame = None
NoneFrame == [is_none |-> TRUE, rows |-> <<>>]

DataFrame(rows) == [is_none |-> FALSE, rows |-> rows]

\* DataFrame.empty
IsEmpty(frame) == Len(frame.rows) = 0

\* DataFrame.copy(): a new frame with the same rows
Copy(frame) == DataFrame(frame.rows)

HasScoreColumn(frame) == \E i \in 1..Len(frame.rows) : "score" \in DOMAIN frame.rows[i]

\* Rows a CSV file may hold (columns read by the filter, the reason string and the model).
RowPool ==
  << [property_id |-> "P1", address |-> "1 Elm St", price |-> 2, bedrooms |-> 2,
      commute_time_min |-> 1, school_rating |-> 2, city |-> "Denver",
      has_pool |-> TRUE, garage_spaces |-> 1, sqft |-> 1],
     [property_id |-> "P2", address |-> "2 Oak Ave", price |-> 1, bedrooms |-> 1,
      commute_time_min |-> 1, school_rating |-> 2, city |-> "Austin",
      has_pool |-> TRUE, garage_spaces |-> 1, sqft |-> 1],
     [property_id |-> "P3", address |-> "3 Pine Rd", price |-> 2, bedrooms |-> 2,
      commute_time_min |-> 2, school_rating |-> 1, city |-> "Denver",
      has_pool |-> TRUE, garage_spaces |-> 1, sqft |-> 2],
     [property_id |-> "P4", address |-> "4 Ash Ct", price |-> 3, bedrooms |-> 2,
      commute_time_min |-> 1, school_rating |-> 2, city |-> "Denver",
      has_pool |-> FALSE, garage_spaces |-> 0, sqft |-> 2] >>

Feats == {RowPool[i].sqft : i \in 1..Len(RowPool)}

\* CSV contents: up to MaxRows consecutive rows of the pool, identifiers unique.
CsvFiles ==
  {SubSeq(RowPool, ab[1], ab[2]) :
     ab \in {x \in (1..Len(RowPool)) \X (0..Len(RowPool)) :
               x[2] >= x[1] - 1 /\ x[2] - x[1] + 1 <= MaxRows}}

(* ----------------------------- model bundle ---------------------------- *)
\* model_bundle: Dict[str, Any] = {}
EmptyBundle == [present |-> FALSE, has_predict_proba |-> FALSE, scoreOf |-> [f \in Feats |-> 0]]

ProbaScores == {33333, 100000}
ScalarScores == {-12346, 250000}

\* .pkl contents: model + scaler + features; the model is either a classifier
\* exposing predict_proba (positive-class probability in [0, 1]) or an estimator
\* with predict only (any scalar).
Injective(S, T) == {m \in [S -> T] : \A a, b \in S : a # b => m[a] # m[b]}

PklFiles ==
  {[present |-> TRUE, has_predict_proba |-> TRUE, scoreOf |-> m] : m \in Injective(Feats, ProbaScores)}
  \cup
  {[present |-> TRUE, has_predict_proba |-> FALSE, scoreOf |-> m] : m \in Injective(Feats, ScalarScores)}

(* ------------------------------- requests ------------------------------ *)
NoCity == [is_none |-> TRUE, value |-> ""]
City(s) == [is_none |-> FALSE, value |-> s]

\* Python truthiness of Optional[str]: None and "" are falsy
Truthy(city) == ~city.is_none /\ city.value # ""

UserPreferences ==
  [budget_min : {1, 3}, budget_max : {2, 3},
   city : {NoCity, City(""), City("Denver")},
   min_bedrooms : {1, 2},
   max_commute_time_minutes : {1, 2},
   min_school_rating : {1, 2},
   must_have_features : {{}, {"pool"}},
   min_garage_spaces : {0, 1}]

\* max_results: int = 3 carries no validator: any integer is accepted
RecommendationRequest ==
  [path : {"/api/v1/recommendations"}, user_preferences : UserPreferences,
   max_results : (-1)..MaxResults]

NoPreferences == [budget_min |-> 0, budget_max |-> 0, city |-> NoCity, min_bedrooms |-> 0,
                  max_commute_time_minutes |-> 0, min_school_rating |-> 0,
                  must_have_features |-> {}, min_garage_spaces |-> 0]

NoRequest == [path |-> "", user_preferences |-> NoPreferences, max_results |-> 0]

HealthRequest == [path |-> "/health", user_preferences |-> NoPreferences, max_results |-> 0]

(* ------------------------------ responses ------------------------------ *)
NoResponse == [status |-> 0, body |-> [detail |-> ""]]

\* raise HTTPException(status_code=500, detail="No property data available")
DataUnavailable == [status |-> 500, body |-> [detail |-> "No property data available"]]

\* an exception that escapes the handler: the framework answers 500
Unhandled(exc) == [status |-> 500, body |-> [detail |-> "Internal Server Error", exception |-> exc]]

RecommendationResponse(recs) == [status |-> 200, body |-> [recommendations |-> recs]]

\* a health check that reports the state of the data store
healthDegraded ==
  IF property_data.is_none \/ Len(property_data.rows) = 0
    THEN [status |-> 503, body |-> [status |-> "degraded"]]
    ELSE [status |-> 200, body |-> [status |-> "ok"]]

\* def health(): return {"status": "ok"}
health == [status |-> 200, body |-> [status |-> "ok"]]

(* ----------------------------- the pipeline ---------------------------- *)
\* the filter chain without the has_pool mask
MatchesIgnoringPool(row, prefs) ==
  /\ row.price >= prefs.budget_min /\ row.price <= prefs.budget_max
  /\ row.bedrooms >= prefs.min_bedrooms
  /\ row.commute_time_min <= prefs.max_commute_time_minutes
  /\ row.school_rating >= prefs.min_school_rating
  /\ (Truthy(prefs.city) => row.city = prefs.city.value)
  /\ row.garage_spaces >= prefs.min_garage_spaces

\* the conjunction of the boolean masks of lines 89-97
Matches(row, prefs) ==
  /\ row.price >= prefs.budget_min /\ row.price <= prefs.budget_max
  /\ row.bedrooms >= prefs.min_bedrooms
  /\ row.commute_time_min <= prefs.max_commute_time_minutes
  /\ row.school_rating >= prefs.min_school_rating
  /\ (Truthy(prefs.city) => row.city = prefs.city.value)
  /\ ("pool" \in prefs.must_have_features => row.has_pool = TRUE)
  /\ row.garage_spaces >= prefs.min_garage_spaces

\* df = df[mask]: the rows that pass, in their order
PreferenceFilter(frame, prefs) ==
  DataFrame(SelectSeq(frame.rows, LAMBDA row : Matches(row, prefs)))

\* preds: predict_proba(X)[:, 1] if the model has predict_proba, else predict(X)
Preds(frame, bundle) == [i \in 1..Len(frame.rows) |-> bundle.scoreOf[frame.rows[i].sqft]]

\* df['score'] = preds
WithScore(frame, preds) ==
  DataFrame([i \in 1..Len(frame.rows) |-> frame.rows[i] @@ ("score" :> preds[i])])

Perms(n) == {p \in [1..n -> 1..n] : \A i, j \in 1..n : i # j => p[i] # p[j]}

\* df.sort_values(by='score', ascending=False): the default kind is quicksort, which
\* is not stable, so every score-descending arrangement of the rows is a possible result
SortValuesDesc(frame) ==
  LET n == Len(frame.rows)
  IN  {DataFrame([i \in 1..n |-> frame.rows[p[i]]]) :
         p \in {q \in Perms(n) :
                  \A i \in 1..n-1 : frame.rows[q[i]].score >= frame.rows[q[i+1]].score}}

\* DataFrame.head(n): the first n rows; for negative n, all rows but the last -n
HeadRows(frame, n) ==
  LET len == Len(frame.rows)
      k == IF n >= 0 THEN (IF n < len THEN n ELSE len)
           ELSE (IF len + n > 0 THEN len + n ELSE 0)
  IN  DataFrame(SubSeq(frame.rows, 1, k))

\* round(x, 2) of x = score * 100, in hundredths: round half to even
Round2(score) ==
  LET q == score \div 10
      r == score % 10
  IN  IF r < 5 THEN q
      ELSE IF r > 5 THEN q + 1
      ELSE IF q % 2 = 0 THEN q ELSE q + 1

\* the reason f-string, as the tuple of the values it interpolates
Reason(row) == <<row.city, row.bedrooms, row.price, row.school_rating>>

PropertyRecommendation(row) ==
  [property_id |-> row.property_id, address |-> row.address, price |-> row.price,
   score |-> Round2(row.score), reason |-> Reason(row)]

Recommendations(frame) == [i \in 1..Len(frame.rows) |-> PropertyRecommendation(frame.rows[i])]

\* recommend_properties as a function of the globals and the request: the responses
\* one call can produce when nothing else runs (lines 80-123)
recommend_properties(store, bundle, r) ==
  IF store.is_none THEN {Unhandled("AttributeError")}
  ELSE IF IsEmpty(store) THEN {DataUnavailable}
  ELSE LET filtered == PreferenceFilter(Copy(store), r.user_preferences)
       IN  IF IsEmpty(filtered) THEN {RecommendationResponse(<<>>)}
           ELSE IF ~bundle.present THEN {Unhandled("KeyError")}
           ELSE {RecommendationResponse(Recommendations(HeadRows(sorted, r.max_results))) :
                   sorted \in SortValuesDesc(WithScore(filtered, Preds(filtered, bundle)))}

(* -------------------------------- state -------------------------------- *)
Init ==
  /\ phase = "init"
  /\ property_data = NoneFrame
  /\ model_bundle = EmptyBundle
  /\ log = <<>>
  /\ pc = [c \in Clients |-> "idle"]
  /\ req = [c \in Clients |-> NoRequest]
  /\ df = [c \in Clients |-> NoneFrame]
  /\ resp = [c \in Clients |-> NoResponse]
  /\ ran = [c \in Clients |-> {}]

requestVars == <<pc, req, df, resp, ran>>

(* ------------------------------- lifespan ------------------------------ *)
\* property_data = pd.read_csv(...) succeeded
LoadDatasetOk(rows) ==
  /\ phase = "init"
  /\ property_data' = DataFrame(rows)
  /\ log' = Append(log, "Loaded properties.")
  /\ phase' = "dataset_done"
  /\ UNCHANGED <<model_bundle, requestVars>>

\* read_csv raised and the exception escapes the lifespan: startup aborts
LoadDatasetFailFatal ==
  /\ phase = "init"
  /\ log' = Append(log, "Failed to load CSV")
  /\ phase' = "crashed"
  /\ UNCHANGED <<property_data, model_bundle, requestVars>>

\* read_csv raised: property_data = pd.DataFrame()
LoadDatasetFail ==
  /\ phase = "init"
  /\ property_data' = DataFrame(<<>>)
  /\ log' = Append(log, "Failed to load CSV")
  /\ phase' = "dataset_done"
  /\ UNCHANGED <<model_bundle, requestVars>>

\* model_bundle = joblib.load(...) succeeded
LoadModelOk(bundle) ==
  /\ phase = "dataset_done"
  /\ model_bundle' = bundle
  /\ log' = Append(log, "ML model and scaler loaded.")
  /\ phase' = "serving"
  /\ UNCHANGED <<property_data, requestVars>>

\* joblib.load raised: the error is logged, model_bundle keeps {}
LoadModelFail ==
  /\ phase = "dataset_done"
  /\ log' = Append(log, "Failed to load .pkl model")
  /\ phase' = "serving"
  /\ UNCHANGED <<property_data, model_bundle, requestVars>>

(* ------------------------ recommend_properties ------------------------- *)
\* the handler without the emptiness check of line 84
BeginUnchecked(c, r) ==
  /\ pc[c] = "idle"
  /\ phase \in {"init", "serving"}
  /\ req' = [req EXCEPT ![c] = r]
  /\ ran' = [ran EXCEPT ![c] = {}]
  /\ IF property_data.is_none
       THEN /\ resp' = [resp EXCEPT ![c] = Unhandled("AttributeError")]
            /\ pc' = [pc EXCEPT ![c] = "done"]
            /\ UNCHANGED df
       ELSE /\ df' = [df EXCEPT ![c] = Copy(property_data)]
            /\ pc' = [pc EXCEPT ![c] = "filter"]
            /\ UNCHANGED resp
  /\ UNCHANGED <<phase, property_data, model_bundle, log>>

\* lines 80-88: the request arrives; property_data.empty; df = property_data.copy()
\* (property_data is still None when the lifespan has not run, as under a test
\* client that is not entered: None.empty raises AttributeError)
Begin(c, r) ==
  /\ pc[c] = "idle"
  /\ phase \in {"init", "serving"}
  /\ req' = [req EXCEPT ![c] = r]
  /\ ran' = [ran EXCEPT ![c] = {}]
  /\ IF property_data.is_none
       THEN /\ resp' = [resp EXCEPT ![c] = Unhandled("AttributeError")]
            /\ pc' = [pc EXCEPT ![c] = "done"]
            /\ UNCHANGED df
       ELSE IF IsEmpty(property_data)
       THEN /\ resp' = [resp EXCEPT ![c] = DataUnavailable]
            /\ pc' = [pc EXCEPT ![c] = "done"]
            /\ UNCHANGED df
       ELSE /\ df' = [df EXCEPT ![c] = Copy(property_data)]
            /\ pc' = [pc EXCEPT ![c] = "filter"]
            /\ UNCHANGED resp
  /\ UNCHANGED <<phase, property_data, model_bundle, log>>

\* the filter chain without the early return of lines 99-100
FilterNoShortCircuit(c) ==
  /\ pc[c] = "filter"
  /\ df' = [df EXCEPT ![c] = PreferenceFilter(df[c], req[c].user_preferences)]
  /\ ran' = [ran EXCEPT ![c] = @ \cup {"filter"}]
  /\ pc' = [pc EXCEPT ![c] = "score"]
  /\ UNCHANGED <<phase, property_data, model_bundle, log, req, resp>>

\* lines 89-100: the filter chain; an empty result returns an empty list
Filter(c) ==
  /\ pc[c] = "filter"
  /\ LET out == PreferenceFilter(df[c], req[c].user_preferences)
     IN  /\ df' = [df EXCEPT ![c] = out]
         /\ ran' = [ran EXCEPT ![c] = @ \cup {"filter"}]
         /\ IF IsEmpty(out)
              THEN /\ resp' = [resp EXCEPT ![c] = RecommendationResponse(<<>>)]
                   /\ pc' = [pc EXCEPT ![c] = "done"]
              ELSE /\ pc' = [pc EXCEPT ![c] = "score"]
                   /\ UNCHANGED resp
  /\ UNCHANGED <<phase, property_data, model_bundle, log, req>>

\* scoring that falls back to zero scores when the bundle is absent
ScoreDefaultZero(c) ==
  /\ pc[c] = "score"
  /\ df' = [df EXCEPT ![c] = WithScore(df[c], Preds(df[c], model_bundle))]
  /\ ran' = [ran EXCEPT ![c] = @ \cup {"score"}]
  /\ pc' = [pc EXCEPT ![c] = "rank"]
  /\ UNCHANGED <<phase, property_data, model_bundle, log, req, resp>>

\* scoring that attaches the score column to the shared table as well
ScoreShared(c) ==
  /\ pc[c] = "score"
  /\ IF ~model_bundle.present
       THEN /\ resp' = [resp EXCEPT ![c] = Unhandled("KeyError")]
            /\ pc' = [pc EXCEPT ![c] = "done"]
            /\ UNCHANGED <<df, ran, property_data>>
       ELSE /\ df' = [df EXCEPT ![c] = WithScore(df[c], Preds(df[c], model_bundle))]
            /\ property_data' = WithScore(property_data, Preds(property_data, model_bundle))
            /\ ran' = [ran EXCEPT ![c] = @ \cup {"score"}]
            /\ pc' = [pc EXCEPT ![c] = "rank"]
            /\ UNCHANGED resp
  /\ UNCHANGED <<phase, model_bundle, log, req>>

\* lines 103-109: model_bundle['model'] raises KeyError on {}; else df['score'] = preds
Score(c) ==
  /\ pc[c] = "score"
  /\ IF ~model_bundle.present
       THEN /\ resp' = [resp EXCEPT ![c] = Unhandled("KeyError")]
            /\ pc' = [pc EXCEPT ![c] = "done"]
            /\ UNCHANGED <<df, ran>>
       ELSE /\ df' = [df EXCEPT ![c] = WithScore(df[c], Preds(df[c], model_bundle))]
            /\ ran' = [ran EXCEPT ![c] = @ \cup {"score"}]
            /\ pc' = [pc EXCEPT ![c] = "rank"]
            /\ UNCHANGED resp
  /\ UNCHANGED <<phase, property_data, model_bundle, log, req>>

\* lines 110-123: sort, head(max_results), build the response
Rank(c) ==
  /\ pc[c] = "rank"
  /\ \E sorted \in SortValuesDesc(df[c]) :
       LET df_sorted == HeadRows(sorted, req[c].max_results)
       IN  /\ df' = [df EXCEPT ![c] = df_sorted]
           /\ resp' = [resp EXCEPT ![c] = RecommendationResponse(Recommendations(df_sorted))]
  /\ ran' = [ran EXCEPT ![c] = @ \cup {"rank"}]
  /\ pc' = [pc EXCEPT ![c] = "done"]
  /\ UNCHANGED <<phase, property_data, model_bundle, log, req>>

\* the response is sent and the request's locals are dropped
Return(c) ==
  /\ pc[c] = "done"
  /\ pc' = [pc EXCEPT ![c] = "idle"]
  /\ req' = [req EXCEPT ![c] = NoRequest]
  /\ df' = [df EXCEPT ![c] = NoneFrame]
  /\ resp' = [resp EXCEPT ![c] = NoResponse]
  /\ ran' = [ran EXCEPT ![c] = {}]
  /\ UNCHANGED <<phase, property_data, model_bundle, log>>

\* GET /health: answered in any state of the process
Health(c) ==
  /\ pc[c] = "idle"
  /\ req' = [req EXCEPT ![c] = HealthRequest]
  /\ resp' = [resp EXCEPT ![c] = health]
  /\ pc' = [pc EXCEPT ![c] = "done"]
  /\ UNCHANGED <<phase, property_data, model_bundle, log, df, ran>>

(* ---------------------------- specifications --------------------------- *)
\* the lifespan startup, lines 25-36
LoadDataset == (\E rows \in CsvFiles : LoadDatasetOk(rows)) \/ LoadDatasetFail

LoadModel == (\E bundle \in PklFiles : LoadModelOk(bundle)) \/ LoadModelFail

\* one request at a time; every CSV file, every .pkl file, every request
Next ==
  \/ \E rows \in CsvFiles : LoadDatasetOk(rows)
  \/ LoadDatasetFail
  \/ \E bundle \in PklFiles : LoadModelOk(bundle)
  \/ LoadModelFail
  \/ \E r \in RecommendationRequest : Begin(1, r)
  \/ Filter(1)
  \/ Score(1)
  \/ Rank(1)
  \/ Return(1)
  \/ Health(1)

Spec == Init /\ [][Next]_vars

\* Requests served concurrently (sync handlers run in the framework's thread pool),
\* over fewer files and requests: the longest CSV prefix of the pool or an empty
\* file, the classifier bundles, and requests that differ in budget and city.
ConcCsvFiles == {rows \in CsvFiles : rows = SubSeq(RowPool, 1, Len(rows)) /\ Len(rows) \in {0, MaxRows}}

ConcPklFiles == {bundle \in PklFiles : bundle.has_predict_proba /\ bundle.scoreOf[1] < bundle.scoreOf[2]}

ConcRequests ==
  {r \in RecommendationRequest :
     /\ r.max_results = MaxResults
     /\ r.user_preferences.city # City("")
     /\ r.user_preferences.min_bedrooms = 1
     /\ r.user_preferences.max_commute_time_minutes = 2
     /\ r.user_preferences.min_school_rating = 1
     /\ r.user_preferences.must_have_features = {}
     /\ r.user_preferences.min_garage_spaces = 0}

ConcNext ==
  \/ \E rows \in ConcCsvFiles : LoadDatasetOk(rows)
  \/ LoadDatasetFail
  \/ \E bundle \in ConcPklFiles : LoadModelOk(bundle)
  \/ LoadModelFail
  \/ \E c \in Clients :
       \/ \E r \in ConcRequests : Begin(c, r)
       \/ Filter(c)
       \/ Score(c)
       \/ Rank(c)
       \/ Return(c)
       \/ Health(c)

ConcSpec == Init /\ [][ConcNext]_vars

\* The lifespan body is straight-line code: each load returns or raises, and the
\* except clause lets control go on, so a startup step that can run does run.
LiveSpec == Init /\ [][ConcNext]_vars /\ WF_vars(LoadDataset) /\ WF_vars(LoadModel)

(* -------------------------------- claims ------------------------------- *)
POST == "/api/v1/recommendations"

\* a recommendation request that has been answered with a success response
Answered200(c) == pc[c] = "done" /\ req[c].path = POST /\ resp[c].status = 200

Recs(c) == resp[c].body.recommendations

\* the Dataset Store rows that pass the Preference Filter of client c's request
Survivors(c) == PreferenceFilter(property_data, req[c].user_preferences).rows

\* C1: every recommendation returned by POST /api/v1/recommendations comes from a
\* Dataset Store row that satisfies every filter predicate: price within
\* [budget_min, budget_max], bedrooms >= min_bedrooms, commute_time_min <=
\* max_commute_time_minutes, school_rating >= min_school_rating, garage_spaces >=
\* min_garage_spaces, the requested city when one is given (a non-empty string), and
\* has_pool when "pool" is among must_have_features.
C1_FilterSound ==
  \A c \in Clients :
    Answered200(c) =>
      \A i \in 1..Len(Recs(c)) :
        \E j \in 1..Len(property_data.rows) :
          LET row == property_data.rows[j]
              p == req[c].user_preferences
          IN  /\ row.property_id = Recs(c)[i].property_id
              /\ row.price = Recs(c)[i].price
              /\ p.budget_min <= row.price /\ row.price <= p.budget_max
              /\ row.bedrooms >= p.min_bedrooms
              /\ row.commute_time_min <= p.max_commute_time_minutes
              /\ row.school_rating >= p.min_school_rating
              /\ row.garage_spaces >= p.min_garage_spaces
              /\ ((~p.city.is_none /\ p.city.value # "") => row.city = p.city.value)
              /\ ("pool" \in p.must_have_features => row.has_pool)

\* a response with a recommendation, for a request that names a city and asks for a
\* pool, over a store holding a row without a pool
C1_Witness ==
  \E c \in Clients :
    /\ Answered200(c)
    /\ Len(Recs(c)) >= 1
    /\ req[c].user_preferences.city = City("Denver")
    /\ "pool" \in req[c].user_preferences.must_have_features
    /\ \E j \in 1..Len(property_data.rows) : ~property_data.rows[j].has_pool

\* C2: no recommendation is returned beyond the requested max_results, nor beyond
\* the number of rows that survive the Preference Filter, for every integer
\* max_results (0 and negative values included).
C2_CountBounded ==
  \A c \in Clients :
    Answered200(c) =>
      \A i \in 1..Len(Recs(c)) : i <= req[c].max_results /\ i <= Len(Survivors(c))

\* the survivors scored by the bundle, in Dataset Store order
ScoredSurvivors(c) ==
  LET f == PreferenceFilter(property_data, req[c].user_preferences)
  IN  WithScore(f, Preds(f, model_bundle)).rows

\* the stable score-descending order of rows: equal scores keep their order
StableDesc(rows) ==
  LET n == Len(rows)
      p == CHOOSE q \in Perms(n) :
             \A i, j \in 1..n :
               i < j => \/ rows[q[i]].score > rows[q[j]].score
                        \/ rows[q[i]].score = rows[q[j]].score /\ q[i] < q[j]
  IN  [i \in 1..n |-> rows[p[i]]]

\* C3: the returned list is ordered by score descending, equal scores keep their
\* Dataset Store order, and the returned rows are the first max_results rows of
\* that ordering of all filter survivors.
C3_StableRanking ==
  \A c \in Clients :
    (Answered200(c) /\ model_bundle.present) =>
      LET ordered == StableDesc(ScoredSurvivors(c))
          k == IF req[c].max_results < Len(ordered) THEN req[c].max_results ELSE Len(ordered)
          first == SubSeq(ordered, 1, k)
      IN  /\ \A i \in 1..Len(Recs(c)) - 1 : Recs(c)[i].score >= Recs(c)[i + 1].score
          /\ Len(Recs(c)) = Len(first)
          /\ \A i \in 1..Len(first) : Recs(c)[i].property_id = first[i].property_id

\* C4: a recommendation request that arrives while the Dataset Store is an empty
\* table is answered at once with status 500 and the detail message, before any
\* filtering, scoring or ranking step, whatever the request and the Model Bundle.
C4_EmptyStoreFailsFast ==
  [][\A c \in Clients :
       (/\ pc[c] = "idle" /\ pc'[c] # "idle" /\ req'[c].path = POST
        /\ ~property_data.is_none /\ Len(property_data.rows) = 0)
       => /\ pc'[c] = "done"
          /\ resp'[c] = [status |-> 500, body |-> [detail |-> "No property data available"]]
          /\ ran'[c] = {}
          /\ df'[c] = NoneFrame]_vars

\* the 500 answer over an empty table with a Model Bundle present
C4_Witness ==
  \E c \in Clients :
    /\ pc[c] = "done" /\ req[c].path = POST
    /\ ~property_data.is_none /\ Len(property_data.rows) = 0
    /\ model_bundle.present
    /\ resp[c].status = 500 /\ resp[c].body = [detail |-> "No property data available"]
    /\ ran[c] = {}

\* some Dataset Store row passes the filter of client c's request
SomeRowMatches(c) ==
  \E j \in 1..Len(property_data.rows) :
    LET row == property_data.rows[j]
        p == req[c].user_preferences
    IN  /\ p.budget_min <= row.price /\ row.price <= p.budget_max
        /\ row.bedrooms >= p.min_bedrooms
        /\ row.commute_time_min <= p.max_commute_time_minutes
        /\ row.school_rating >= p.min_school_rating
        /\ row.garage_spaces >= p.min_garage_spaces
        /\ ((~p.city.is_none /\ p.city.value # "") => row.city = p.city.value)
        /\ ("pool" \in p.must_have_features => row.has_pool)

\* C5: with the Dataset Store loaded and the Model Bundle absent, a request whose
\* preferences match at least one row ends in an error response: it is never
\* answered with a success response, and no score is ever attached.
C5_NoBundleNoScores ==
  \A c \in Clients :
    (/\ req[c].path = POST /\ phase = "serving" /\ ~model_bundle.present
     /\ SomeRowMatches(c))
    => /\ pc[c] \notin {"rank"}
       /\ ~HasScoreColumn(df[c])
       /\ pc[c] = "done" => (resp[c].status = 500 /\ "score" \notin ran[c])

\* a matching request that ended in the KeyError of the absent bundle
C5_Witness ==
  \E c \in Clients :
    /\ pc[c] = "done" /\ req[c].path = POST /\ phase = "serving"
    /\ ~model_bundle.present /\ SomeRowMatches(c)
    /\ resp[c] = Unhandled("KeyError")

\* C6: with a non-empty Dataset Store, a request whose filter predicates eliminate
\* every row (budget_min > budget_max included) is answered 200 with an empty list
\* by the filter step itself: scoring and ranking never run, whatever the bundle.
C6_EmptyResultShortCircuits ==
  [][\A c \in Clients :
       (/\ pc[c] = "filter" /\ pc'[c] # "filter"
        /\ Len(property_data.rows) > 0 /\ ~SomeRowMatches(c))
       => /\ pc'[c] = "done"
          /\ resp'[c] = [status |-> 200, body |-> [recommendations |-> <<>>]]
          /\ ran'[c] = {"filter"}]_vars

\* an empty list for an inverted budget range, with the Model Bundle absent
C6_Witness ==
  \E c \in Clients :
    /\ pc[c] = "done" /\ req[c].path = POST
    /\ req[c].user_preferences.budget_min > req[c].user_preferences.budget_max
    /\ Len(property_data.rows) > 0
    /\ ~model_bundle.present
    /\ resp[c].status = 200 /\ resp[c].body = [recommendations |-> <<>>]
    /\ ran[c] = {"filter"}

\* C7: no step of any request changes the shared Dataset Store or Model Bundle,
\* the two stay what startup left them, the store never carries a score column,
\* and every request is answered with a response that recommend_properties gives
\* for the globals and that request when it runs alone.
C7_Isolation ==
  [][/\ phase = "serving" => (property_data' = property_data /\ model_bundle' = model_bundle)
     /\ (\E c \in Clients : pc'[c] # pc[c])
          => (property_data' = property_data /\ model_bundle' = model_bundle)
     /\ ~HasScoreColumn(property_data')
     /\ \A c \in Clients :
          (pc[c] # "done" /\ pc'[c] = "done" /\ req'[c].path = POST)
          => resp'[c] \in recommend_properties(property_data, model_bundle, req'[c])]_vars

\* client 2 has its scored answer while client 1, with another request, is between
\* scoring and ranking
C7_Witness ==
  /\ pc[1] = "rank" /\ HasScoreColumn(df[1])
  /\ pc[2] = "done" /\ req[2].path = POST /\ resp[2].status = 200
  /\ Len(resp[2].body.recommendations) >= 1
  /\ req[1] # req[2]

\* C8: every returned score lies within [0, 100] (0..10000 hundredths) and is the
\* model's score for the row times 100 rounded to two decimals, for classifiers
\* (predict_proba) and for models with predict only.
C8_ScoreRange ==
  \A c \in Clients :
    Answered200(c) =>
      \A i \in 1..Len(Recs(c)) :
        /\ 0 <= Recs(c)[i].score /\ Recs(c)[i].score <= 10000
        /\ \E j \in 1..Len(property_data.rows) :
             /\ property_data.rows[j].property_id = Recs(c)[i].property_id
             /\ Recs(c)[i].score = Round2(model_bundle.scoreOf[property_data.rows[j].sqft])

CsvAttempts == Len(SelectSeq(log, LAMBDA m : m \in {"Loaded properties.", "Failed to load CSV"}))

PklAttempts == Len(SelectSeq(log, LAMBDA m : m \in {"ML model and scaler loaded.", "Failed to load .pkl model"}))

Logged(m) == \E i \in 1..Len(log) : log[i] = m

\* what holds of startup in every state
StartupSafe ==
  /\ phase \in {"init", "dataset_done", "serving"}
  /\ CsvAttempts <= 1 /\ PklAttempts <= 1
  /\ phase = "dataset_done" => (CsvAttempts = 1 /\ PklAttempts = 0)
  /\ phase = "serving" => (CsvAttempts = 1 /\ PklAttempts = 1)
  /\ Logged("Failed to load CSV") => property_data = [is_none |-> FALSE, rows |-> <<>>]
  /\ Logged("Failed to load .pkl model") => ~model_bundle.present
  /\ \A c \in Clients :
       (~property_data.is_none /\ Len(property_data.rows) = 0 /\ req[c].path = POST)
       => (pc[c] \in {"idle", "done"} /\ ran[c] = {})

\* C9: startup always reaches the serving state whichever loads fail; each load is
\* attempted exactly once, the model load also after a failed dataset load; a failed
\* dataset load leaves an empty table and a failed model load an empty bundle; no
\* request against the empty table gets past the emptiness check.
C9_StartupCompletes ==
  /\ []StartupSafe
  /\ <>(phase = "serving")
  /\ (Logged("Failed to load CSV") ~> (PklAttempts = 1))

\* serving after both loads failed, with a request answered 500 by the empty table
C9_Witness ==
  /\ phase = "serving"
  /\ log = <<"Failed to load CSV", "Failed to load .pkl model">>
  /\ \E c \in Clients :
       /\ pc[c] = "done" /\ req[c].path = POST
       /\ resp[c].status = 500 /\ resp[c].body = [detail |-> "No property data available"]

\* C10: GET /health is answered 200 with {status: "ok"} in every state: store not
\* yet loaded, empty or loaded, bundle present or absent, after any requests.
C10_HealthAlwaysOk ==
  \A c \in Clients :
    (pc[c] = "done" /\ req[c].path = "/health")
    => resp[c] = [status |-> 200, body |-> [status |-> "ok"]]

\* health answered over the empty store and absent bundle while another request
\* has just failed
C10_Witness ==
  \E c, d \in Clients :
    /\ pc[c] = "done" /\ req[c].path = "/health" /\ resp[c].status = 200
    /\ pc[d] = "done" /\ req[d].path = POST /\ resp[d].status = 500
    /\ ~property_data.is_none /\ Len(property_data.rows) = 0
    /\ ~model_bundle.present

====
